---- MODULE Spec2Model ----
(***************************************************************************)
(* Model of the initial-condition power-spectrum check of SimulationRunner *)
(* (SimulationRunner/simulationics.py, cambpower.py).                      *)
(*                                                                         *)
(* The specifications share the variables:                                 *)
(*   Spec       SimulationICs.check_ic_power_spectra, one action per       *)
(*              iteration of its loop over the species DM, by, nu;         *)
(*   SpecGenpk  load_genpk applied to a raw Gen-PK table;                  *)
(*   SpecCamb   CAMBPowerSpectrum.get_camb_power on a built theory model;  *)
(*   SpecMake   SimulationICs.make_simulation, one action per step.        *)
(*                                                                         *)
(* Real numbers are exact: a number is (n/d) * (2 pi)^e, kept in lowest    *)
(* terms, so the unit conversions of load_genpk (which multiply and divide *)
(* by 2 pi) are computed and not assumed.  Array indices are the 0-based   *)
(* indices of the Python code; a TLA+ sequence s holds element i at s[i+1].*)
(***************************************************************************)
EXTENDS Integers, Sequences, FiniteSets, TLC

VARIABLES
    box,          \* self.box
    npart,        \* self.npart
    separate_gas, \* self.separate_gas
    separate_nu,  \* self.separate_nu
    pkaccuracy,   \* the accuracy argument the caller passed
    accuracy,     \* the local variable accuracy of check_ic_power_spectra
    pc,           \* position of the call: "loop", "returned", "raised", or "genpk"
    spi,          \* 0-based index in SpeciesOrder of the next species of the loop
    outcome,      \* per species: what its iteration ended with
    cur,          \* the locals of the iteration that ran last
    infile,       \* SpecGenpk: the raw table np.loadtxt reads
    minmode,      \* SpecGenpk: the minmode argument of load_genpk
    loaded,       \* SpecGenpk: what load_genpk returned or raised
    camb_files,   \* the CAMB tables on disc and the kmin, kmax they are cut to
    camb,         \* the CAMBPowerSpectrum object built from camb_files
    query,        \* SpecCamb: the arguments kvals and species of get_camb_power
    power,        \* SpecCamb: what get_camb_power returned or raised
    omega0,       \* self.omega0
    genicdefault, \* SpecMake: the default N-GenIC parameters (self.genicdefault)
    genicout,     \* SpecMake: the N-GenIC parameter file genicfile wrote
    steps         \* SpecMake: the steps make_simulation ran, with their results

vars == <<box, npart, separate_gas, separate_nu, pkaccuracy, accuracy, pc, spi,
          outcome, cur, infile, minmode, loaded, camb_files, camb, query, power,
          omega0, genicdefault, genicout, steps>>

------------------------------------------------------------------------------
(* Exact arithmetic on numbers (n/d) * (2 pi)^e.                            *)

RECURSIVE GCD(_, _)
GCD(a, b) == IF b = 0 THEN a ELSE GCD(b, a % b)

AbsInt(x) == IF x < 0 THEN -x ELSE x

\* The number (n/d) * (2 pi)^e in lowest terms; zero has one representation.
Num(n, d, e) ==
    IF n = 0 THEN [n |-> 0, d |-> 1, e |-> 0]
    ELSE LET s == IF d < 0 THEN -1 ELSE 1
             g == GCD(AbsInt(n), AbsInt(d))
         IN  [n |-> (s * n) \div g, d |-> (s * d) \div g, e |-> e]

Int2Num(i) == Num(i, 1, 0)
Zero == Int2Num(0)
One == Int2Num(1)
\* math.pi * 2
TwoPi == Num(1, 1, 1)

Mul(a, b) == Num(a.n * b.n, a.d * b.d, a.e + b.e)
Div(a, b) == Num(a.n * b.d, a.d * b.n, a.e - b.e)
\* Sums are only taken of numbers of the same power of 2 pi (or of zero).
Add(a, b) ==
    IF a.n = 0 THEN b
    ELSE IF b.n = 0 THEN a
    ELSE Num(a.n * b.d + b.n * a.d, a.d * b.d, a.e)
Neg(a) == Num(-a.n, a.d, a.e)
Sub(a, b) == Add(a, Neg(b))
AbsNum(a) == Num(AbsInt(a.n), a.d, a.e)
Cube(a) == Mul(a, Mul(a, a))

\* an/ad < bn/bd for non-negative fractions, by continued-fraction expansion
\* (no cross product, so no overflow on widely different magnitudes).
RECURSIVE LessFrac(_, _, _, _)
LessFrac(an, ad, bn, bd) ==
    LET qa == an \div ad
        qb == bn \div bd
        ra == an % ad
        rb == bn % bd
    IN  IF qa # qb THEN qa < qb
        ELSE IF rb = 0 THEN FALSE
        ELSE IF ra = 0 THEN TRUE
        ELSE LessFrac(bd, rb, ad, ra)

\* a < b, for numbers of the same power of 2 pi (or zero).
Less(a, b) ==
    IF a.n < 0 /\ b.n >= 0 THEN TRUE
    ELSE IF a.n >= 0 /\ b.n < 0 THEN FALSE
    ELSE IF a.n < 0 THEN LessFrac(-b.n, b.d, -a.n, a.d)
    ELSE LessFrac(a.n, a.d, b.n, b.d)

Leq(a, b) == ~Less(b, a)

------------------------------------------------------------------------------
(* load_genpk (simulationics.py, lines 360-385).                            *)
(* A raw table is a sequence of rows [k, P, count]: wavenumber and power in *)
(* box units and the number of modes of the shell.                          *)

\* np.loadtxt gives a 2-D array only for a table of at least two rows; for an
\* empty or a one-row table matpow[:,0] raises IndexError.
LoadTxtIs2D(matpow) == Len(matpow) >= 2

\* scale = 2*math.pi/box
Scale(b) == Div(TwoPi, b)

\* kk = matpow[:,0]*scale
PhysK(kraw, scale) == Mul(kraw, scale)

\* (2*math.pi)**3
TwoPiCubed == Cube(TwoPi)

\* Mutant of PhysPk: the factor (2*math.pi)**3 is missing.
PhysPkNoTwoPi(praw, scale) == Div(praw, Cube(scale))

\* Pk = matpow[:,1]/scale**3*(2*math.pi)**3
PhysPk(praw, scale) == Mul(Div(praw, Cube(scale)), TwoPiCubed)

\* np.sum(count[istart:iend]*x[istart:iend])
RECURSIVE WSum(_, _, _, _)
WSum(x, count, istart, iend) ==
    IF istart >= iend THEN Zero
    ELSE Add(Mul(Int2Num(count[istart + 1]), x[istart + 1]),
             WSum(x, count, istart + 1, iend))

\* Mutant of WeightedMean: the sum is divided by the number of rows.
WeightedMeanByRows(x, count, istart, iend, lcount) ==
    Div(WSum(x, count, istart, iend), Int2Num(iend - istart))

\* np.sum(count[istart:iend]*x[istart:iend])/lcount
WeightedMean(x, count, istart, iend, lcount) ==
    Div(WSum(x, count, istart, iend), Int2Num(lcount))

\* Mutant of BinCloses: a bin closes as soon as it holds any mode.
BinClosesOnAnyMode(lcount, mm) == lcount >= 1

\* if lcount >= minmode
BinCloses(lcount, mm) == lcount >= mm

\* Mutant of PowerOk: the assertion on the power is missing.
PowerUnchecked(p) == TRUE

\* assert p >= 0
PowerOk(p) == Leq(Zero, p)

\* assert k > 0
WavenumberOk(k) == Less(Zero, k)

\* Mutant of EmitBin: istart is not moved to iend.
EmitBinKeepStart(st, iend, k, p) ==
    [st EXCEPT !.kk_rebin = Append(@, k),
               !.Pk_rebin = Append(@, p),
               !.bins = Append(@, <<st.istart, iend>>),
               !.iend = iend,
               !.lcount = 0]

\* The body of the if: append the bin and restart the accumulation.  bins
\* records the slice [istart, iend) each appended value was computed from.
EmitBin(st, iend, k, p) ==
    [st EXCEPT !.kk_rebin = Append(@, k),
               !.Pk_rebin = Append(@, p),
               !.bins = Append(@, <<st.istart, iend>>),
               !.istart = iend,
               !.iend = iend,
               !.lcount = 0]

\* The while loop, from the loop state st to the state the loop ends in.
RECURSIVE RebinLoop(_, _, _, _, _)
RebinLoop(kk, Pk, count, mm, st) ==
    IF ~(st.iend < Len(kk)) THEN st
    ELSE LET lcount == st.lcount + count[st.iend + 1]
             iend == st.iend + 1
         IN  IF ~BinCloses(lcount, mm)
             THEN RebinLoop(kk, Pk, count, mm,
                            [st EXCEPT !.lcount = lcount, !.iend = iend])
             ELSE LET p == WeightedMean(Pk, count, st.istart, iend, lcount)
                      k == WeightedMean(kk, count, st.istart, iend, lcount)
                  IN  IF ~PowerOk(p) \/ ~WavenumberOk(k)
                      THEN [st EXCEPT !.status = "AssertionError",
                                      !.lcount = lcount, !.iend = iend]
                      ELSE RebinLoop(kk, Pk, count, mm, EmitBin(st, iend, k, p))

LoopInit ==
    [status |-> "ok", istart |-> 0, iend |-> 0, lcount |-> 0,
     kk_rebin |-> <<>>, Pk_rebin |-> <<>>, bins |-> <<>>]

\* load_genpk(infile, box, minmode): status "ok" with the returned arrays
\* kk_rebin and Pk_rebin, or the exception raised.
load_genpk(matpow, b, mm) ==
    IF ~LoadTxtIs2D(matpow) THEN [LoopInit EXCEPT !.status = "IndexError"]
    ELSE LET scale == Scale(b)
             kk == [i \in 1..Len(matpow) |-> PhysK(matpow[i].k, scale)]
             Pk == [i \in 1..Len(matpow) |-> PhysPk(matpow[i].P, scale)]
             count == [i \in 1..Len(matpow) |-> matpow[i].count]
         IN  RebinLoop(kk, Pk, count, mm, LoopInit)

------------------------------------------------------------------------------
(* CAMBPowerSpectrum (cambpower.py).                                        *)
(* The matter table is a sequence of rows <<k, P>>, the transfer table a     *)
(* sequence of rows of 8 columns, column c of the code being row[c + 1].    *)
(* np.log10(x) is kept as the formal logarithm of x, which 10** undoes;     *)
(* logarithms are ordered as their arguments are.                           *)

\* np.log10
Log10(x) == [log10 |-> x]

\* 10**y
Pow10(y) == y.log10

\* a[lo:hi], for 0-based lo <= hi <= len(a)
Slice(a, lo, hi) == [i \in 1..(hi - lo) |-> a[lo + i]]

\* np.searchsorted(a, v): bisection for the leftmost insertion point.
RECURSIVE Bisect(_, _, _, _)
Bisect(a, v, lo, hi) ==
    IF ~(lo < hi) THEN lo
    ELSE LET mid == (lo + hi) \div 2
         IN  IF Less(a[mid + 1], v) THEN Bisect(a, v, mid + 1, hi)
             ELSE Bisect(a, v, lo, mid)

searchsorted(a, v) == Bisect(a, v, 0, Len(a))

\* np.searchsorted on an array of logarithms.
searchsortedLog(a, v) == searchsorted([i \in 1..Len(a) |-> Pow10(a[i])], Pow10(v))

\* interp.interp1d(x, y, kind='cubic'): the interpolant through the nodes
\* (x[i], y[i]), x being logarithms in increasing order.
interp1d(x, y) == [x |-> x, y |-> y]

\* (tk_camb[lti:hti, col]/tk_camb[lti:hti, 6])**2, for one row
TransferRatio(row, col) ==
    LET r == Div(row[col + 1], row[7]) IN Mul(r, r)

\* The column of the transfer table of each species (lines 21-27).
TransferColumn == [DM |-> 1, by |-> 2, nu |-> 5, DMby |-> 7]

\* CAMBPowerSpectrum.__init__: both tables are cut to the rows of index in
\* [searchsorted(kmin), searchsorted(kmax)) and the interpolants are built.
CAMBPowerSpectrum(camb_matter, camb_transfer, kmin, kmax) ==
    LET pk_camb == [i \in 1..Len(camb_matter) |->
                       <<Log10(camb_matter[i][1]), Log10(camb_matter[i][2])>>]
        lgk == [i \in 1..Len(pk_camb) |-> pk_camb[i][1]]
        lgP == [i \in 1..Len(pk_camb) |-> pk_camb[i][2]]
        lpi == searchsortedLog(lgk, Log10(kmin))
        hpi == searchsortedLog(lgk, Log10(kmax))
        tk_k == [i \in 1..Len(camb_transfer) |-> camb_transfer[i][1]]
        lti == searchsorted(tk_k, kmin)
        hti == searchsorted(tk_k, kmax)
        logktrans == [i \in 1..(hti - lti) |-> Log10(tk_k[lti + i])]
    IN  [dpk |-> interp1d(Slice(lgk, lpi, hpi), Slice(lgP, lpi, hpi)),
         dtk |-> [species \in DOMAIN TransferColumn |->
                    interp1d(logktrans,
                             [i \in 1..(hti - lti) |->
                                 TransferRatio(camb_transfer[lti + i],
                                               TransferColumn[species])])]]

\* Calling an interpolant f at the logarithm v.  interp1d raises ValueError
\* outside the range of its nodes; the cubic spline takes the tabulated value
\* at a node and the common value of the nodes when they are all equal.
\* Other spline values are not computed: every query of the model is a node
\* or falls on a constant table.
InterpCall(f, v) ==
    LET n == Len(f.x) IN
    IF Less(Pow10(v), Pow10(f.x[1])) \/ Less(Pow10(f.x[n]), Pow10(v))
    THEN [status |-> "ValueError", val |-> f.y[1]]
    ELSE CASE \E i \in 1..n : f.x[i] = v ->
                [status |-> "ok", val |-> f.y[CHOOSE i \in 1..n : f.x[i] = v]]
           [] \A i \in 1..n : f.y[i] = f.y[1] ->
                [status |-> "ok", val |-> f.y[1]]

\* Mutant of SpeciesPower: the transfer ratio is applied twice.
SpeciesPowerTwice(ptot, tk) == Mul(Mul(ptot, tk), tk)

\* 10**self.dpk(lgkvals)*tk, for one wavenumber
SpeciesPower(ptot, tk) == Mul(ptot, tk)

\* get_camb_power(self, kvals, species): status "ok" with the array of
\* powers, or the ValueError of an interpolant called out of its range.
get_camb_power(self, kvals, species) ==
    LET idx == 1..Len(kvals)
        lgkvals == [i \in idx |-> Log10(kvals[i])]
        p == [i \in idx |-> InterpCall(self.dpk, lgkvals[i])]
    IN  IF species = "tot"
        THEN IF \E i \in idx : p[i].status # "ok"
             THEN [status |-> "ValueError", val |-> <<>>]
             ELSE [status |-> "ok", val |-> [i \in idx |-> Pow10(p[i].val)]]
        ELSE LET tk == [i \in idx |-> InterpCall(self.dtk[species], lgkvals[i])]
             IN  IF \E i \in idx : tk[i].status # "ok" \/ p[i].status # "ok"
                 THEN [status |-> "ValueError", val |-> <<>>]
                 ELSE [status |-> "ok",
                       val |-> [i \in idx |->
                                  SpeciesPower(Pow10(p[i].val), tk[i].val)]]

------------------------------------------------------------------------------
(* SimulationICs.check_ic_power_spectra (simulationics.py, lines 268-332).  *)

\* for sp in ["DM","by", "nu"]
SpeciesOrder == <<"DM", "by", "nu">>

\* Mutant of Mandatory: only the DM file is required.
MandatoryOnlyDM(sp, sg) == sp = "DM"

\* if sp == "DM" or (self.separate_gas and sp == "by"): assert os.path.exists(go)
Mandatory(sp, sg) == sp = "DM" \/ (sg /\ sp = "by")

\* Mutant of TheorySpecies: every label is compared against its own curve.
TheorySpeciesOwn(sp, sg, sn) == sp

\* The species argument of get_camb_power, lines 297-303.
TheorySpecies(sp, sg, sn) ==
    IF ~sg /\ ~sn /\ sp = "DM" THEN "tot"
    ELSE IF ~sg /\ sn /\ sp = "DM" THEN "DMby"
    ELSE sp

\* Mutant of SearchMax: the upper bound is an eighth of npart times the
\* fundamental mode.
SearchMaxEighth(kk_ic, np, b) ==
    searchsorted(kk_ic, Div(Div(Mul(Int2Num(np), TwoPi), b), Int2Num(8)))

\* imax = np.searchsorted(kk_ic, self.npart*2*math.pi/self.box/4)
SearchMax(kk_ic, np, b) ==
    searchsorted(kk_ic, Div(Div(Mul(Int2Num(np), TwoPi), b), Int2Num(4)))

\* imin = np.searchsorted(kk_ic, 2*math.pi/self.box*4)
SearchMin(kk_ic, b) ==
    searchsorted(kk_ic, Mul(Div(TwoPi, b), Int2Num(4)))

\* Mutant of SpeciesAccuracy: the tolerance is multiplied for every species.
SpeciesAccuracyAlways(sp, acc) == Mul(acc, Int2Num(4))

\* accuracy *= 4, for sp == "nu" only
SpeciesAccuracy(sp, acc) == IF sp = "nu" THEN Mul(acc, Int2Num(4)) ELSE acc

\* 1e-5
CutoffFactor == Num(1, 100000, 0)

\* ii = np.where(Pk_ic < Pk_ic[0]*1e-5), as the set of 0-based indices
CutoffIndices(Pk_ic) ==
    {i \in 0..(Len(Pk_ic) - 1) : Less(Pk_ic[i + 1], Mul(Pk_ic[1], CutoffFactor))}

Minimum(S) == CHOOSE x \in S : \A y \in S : x <= y

\* Mutant of WindowMax: the neutrino cutoff is not applied.
WindowMaxNoCutoff(sp, Pk_ic, imax) == imax

\* if sp == "nu": ... if np.size(ii) > 0: imax = ii[0][0]
WindowMax(sp, Pk_ic, imax) ==
    IF sp = "nu" /\ CutoffIndices(Pk_ic) # {} THEN Minimum(CutoffIndices(Pk_ic))
    ELSE imax

\* Lines 317-320 index kk_ic[0], kk_ic[-1], kk_ic[imin] and kk_ic[imax]: an
\* index equal to the length of the array raises IndexError.
PlotIndicesOk(kk_ic, imin, imax) ==
    Len(kk_ic) > 0 /\ imin < Len(kk_ic) /\ imax < Len(kk_ic)

\* The indices of the slice [imin:imax] of an array of length n.
Window(n, imin, imax) == {i \in 0..(n - 1) : imin <= i /\ i < imax}

\* abs(Pk_ic/Pk_camb - 1), at index i
ErrorAt(Pk_ic, Pk_camb, i) ==
    AbsNum(Sub(Div(Pk_ic[i + 1], Pk_camb[i + 1]), One))

\* np.where(error > accuracy), as the set of indices of the window
BadSamples(Pk_ic, Pk_camb, imin, imax, acc) ==
    {i \in Window(Len(Pk_ic), imin, imax) : Less(acc, ErrorAt(Pk_ic, Pk_camb, i))}

\* The number of failing modes that is not worried about (line 331).
MaxOutliers == 3

\* if np.size(np.where(error > accuracy)) > 3
TooManyBad(nbad) == nbad > MaxOutliers

\* np.max(error), over a non-empty window
MaxError(Pk_ic, Pk_camb, W) ==
    LET i == CHOOSE i \in W : \A j \in W :
                 Leq(ErrorAt(Pk_ic, Pk_camb, j), ErrorAt(Pk_ic, Pk_camb, i))
    IN  ErrorAt(Pk_ic, Pk_camb, i)

NoFile == <<>>

\* The locals of an iteration before anything ran.
NoIteration ==
    [sp |-> "none", status |-> "none", matpow |-> NoFile, exists |-> FALSE,
     kk_ic |-> <<>>, Pk_ic |-> <<>>, theory |-> "none", Pk_camb |-> <<>>,
     imin |-> 0, imax_searched |-> 0, imax |-> 0, tol |-> Zero, nbad |-> 0,
     message |-> [species |-> "none", max_error |-> Zero]]

\* imax_searched keeps the value line 305 gave imax, imax the value the
\* comparison uses.
\* One iteration of the loop for species sp, the measurement file existing or
\* not and holding matpow, with the local accuracy acc on entry.
\* status: "skipped" (continue), "pass" (the end of the body was reached), or
\* the exception raised.
Iteration(sp, exists, matpow, b, np, sg, sn, acc, theorymodel) ==
    LET base == [NoIteration EXCEPT !.sp = sp, !.exists = exists,
                                    !.matpow = matpow, !.tol = acc]
    IN
    IF Mandatory(sp, sg) /\ ~exists THEN [base EXCEPT !.status = "AssertionError"]
    ELSE IF ~exists THEN [base EXCEPT !.status = "skipped"]
    ELSE
    LET ld == load_genpk(matpow, b, 1) IN
    IF ld.status # "ok" THEN [base EXCEPT !.status = ld.status]
    ELSE
    LET kk_ic == ld.kk_rebin
        Pk_ic == ld.Pk_rebin
        theory == TheorySpecies(sp, sg, sn)
        pw == get_camb_power(theorymodel, kk_ic, theory)
        read == [base EXCEPT !.kk_ic = kk_ic, !.Pk_ic = Pk_ic, !.theory = theory]
    IN
    IF pw.status # "ok" THEN [read EXCEPT !.status = pw.status]
    ELSE
    LET Pk_camb == pw.val
        imax0 == SearchMax(kk_ic, np, b)
        imin == SearchMin(kk_ic, b)
        tol == SpeciesAccuracy(sp, acc)
        loc == [read EXCEPT !.Pk_camb = Pk_camb, !.imin = imin,
                            !.imax_searched = imax0, !.imax = imax0, !.tol = tol]
    IN
    IF sp = "nu" /\ Len(Pk_ic) = 0 THEN [loc EXCEPT !.status = "IndexError"]
    ELSE
    LET imax == WindowMax(sp, Pk_ic, imax0) IN
    IF ~PlotIndicesOk(kk_ic, imin, imax)
    THEN [loc EXCEPT !.imax = imax, !.status = "IndexError"]
    ELSE
    LET bad == BadSamples(Pk_ic, Pk_camb, imin, imax, tol)
        nbad == Cardinality(bad)
    IN
    IF TooManyBad(nbad)
    THEN [loc EXCEPT !.imax = imax, !.nbad = nbad, !.status = "RuntimeError",
                     !.message = [species |-> sp,
                                  max_error |-> MaxError(Pk_ic, Pk_camb,
                                                   Window(Len(Pk_ic), imin, imax))]]
    ELSE [loc EXCEPT !.imax = imax, !.nbad = nbad, !.status = "pass"]

\* check_ic_power_spectra as one call: the loop over SpeciesOrder from
\* species number i on, files[i] being the measurement file of species i (or
\* NoFile) and acc the local accuracy; "ok" (the call returned), or the
\* exception raised.
RECURSIVE CheckLoop(_, _, _, _, _, _, _, _)
CheckLoop(files, i, acc, b, np, sg, sn, theorymodel) ==
    IF i > Len(SpeciesOrder) THEN "ok"
    ELSE LET it == Iteration(SpeciesOrder[i], files[i] # NoFile, files[i],
                             b, np, sg, sn, acc, theorymodel)
         IN  IF it.status \in {"pass", "skipped"}
             THEN CheckLoop(files, i + 1, it.tol, b, np, sg, sn, theorymodel)
             ELSE it.status

\* check_ic_power_spectra(camb_output, genicfileout, accuracy): the theory
\* model is built from the CAMB tables on disc (line 280), then the loop runs.
check_ic_power_spectra(tables, files, acc, b, np, sg, sn) ==
    CheckLoop(files, 1, acc, b, np, sg, sn,
              CAMBPowerSpectrum(tables.matter, tables.transfer,
                                tables.kmin, tables.kmax))

------------------------------------------------------------------------------
(* SimulationICs.genicfile (simulationics.py, lines 170-216).               *)
(* An N-GenIC parameter file is a record of the parameters the model keeps. *)

NoConfig == [NCDM |-> -1, NBaryon |-> -1, TWOLPT |-> -1, Omega |-> Zero,
             OmegaLambda |-> Zero, InputSpectrum_UnitLength_in_cm |-> "none"]

\* Mutant of BaryonOptions: baryon particles are always asked for.
BaryonOptionsAlwaysGas(config, np, sg) ==
    [config EXCEPT !.NBaryon = np, !.TWOLPT = 0]

\* Lines 188-198: the baryon particles and the 2LPT switch.
BaryonOptions(config, np, sg) ==
    IF sg THEN [config EXCEPT !.NBaryon = np, !.TWOLPT = 0]
    ELSE [config EXCEPT !.NBaryon = 0]

\* genicfile: status "ok" and the file written, or the AssertionError of line
\* 209, raised before config.write().
genicfile(default, np, sg, om) ==
    LET c1 == [default EXCEPT !.NCDM = np]
        c2 == BaryonOptions(c1, np, sg)
        c3 == [c2 EXCEPT !.Omega = om, !.OmegaLambda = Sub(One, om)]
    IN  IF c3.InputSpectrum_UnitLength_in_cm # "3.085678e24"
        THEN [status |-> "AssertionError", written |-> NoConfig]
        ELSE [status |-> "ok", written |-> c3]

------------------------------------------------------------------------------
(* SimulationICs.make_simulation (simulationics.py, lines 334-358).         *)

\* Mutant of MakeSteps: the simulation code runs before the power spectra are
\* checked.
MakeStepsCheckLast ==
    <<"cambfile", "run_camb", "_alter_power", "genicfile", "run_genic",
      "txt_description", "code_make_simulation", "check_ic_power_spectra">>

\* The statements of make_simulation, in the order of the source.
MakeSteps ==
    <<"cambfile", "run_camb", "_alter_power", "genicfile", "run_genic",
      "txt_description", "check_ic_power_spectra", "code_make_simulation">>

\* Where the call is after the step name ended with result: an exception
\* leaves make_simulation, otherwise the next statement runs.
AfterStep(name, result) ==
    LET i == CHOOSE j \in 1..Len(MakeSteps) : MakeSteps[j] = name
    IN  IF result # "ok" THEN "raised"
        ELSE IF i = Len(MakeSteps) THEN "finished"
        ELSE MakeSteps[i + 1]

------------------------------------------------------------------------------
(* Bounds and input sets.                                                   *)

\* Rows of a measurement file read by check_ic_power_spectra: at most
MaxLen == 5
\* Rows of a raw table given to load_genpk: at most
MaxRows == 3
\* minmode argument of load_genpk: at most
MaxMinMode == 3

\* box: 2 pi (scale 1) and 2.
BoxSizes == {TwoPi, Int2Num(2)}
\* Wavenumbers of the rows of the CAMB tables of a run, in units of 2 pi/box:
\* a table that starts below the first measured shell, and one that starts at
\* the second shell.
WideNodes == <<Num(1, 10, 0), Num(1, 2, 0), Int2Num(5), Int2Num(20),
               Int2Num(100), Int2Num(400)>>
LateNodes == <<Num(1, 10, 0), Int2Num(2), Int2Num(5), Int2Num(20),
               Int2Num(100), Int2Num(400)>>
\* (box, npart) of a run: the quarter-Nyquist bound is 4 and 8 times the scale.
Geometries == {<<TwoPi, 16>>, <<Int2Num(2), 32>>}
\* accuracy: the default 0.05, and 0.1.
Accuracies == {Num(1, 20, 0), Num(1, 10, 0)}
\* Measured physical powers (the theory power is 10): collapsed, exact, 30% off.
SamplePowers == {Num(1, 20000, 0), Int2Num(10), Int2Num(13)}
\* Wavenumber (in box units) of the first row of a measurement file.
FirstShells == {1, 4}

\* The Gen-PK tables of a species for a box b: consecutive shells, one mode
\* per shell, physical powers drawn from SamplePowers.
CheckFiles(b) ==
    UNION { { [i \in 1..n |-> [k |-> Int2Num(k0 + i - 1),
                               P |-> Div(ps[i], Cube(b)),
                               count |-> 1]] :
              ps \in [1..n -> SamplePowers] } :
            n \in 2..MaxLen, k0 \in FirstShells }

\* Raw powers, mode counts and first wavenumbers of the tables given to
\* load_genpk alone.
RawPowers == {-1, 0, 2}
ModeCounts == {0, 1, 2}
RawFirstShells == {0, 1}

RawTables ==
    UNION { { [i \in 1..n |-> [k |-> Int2Num(k0 + i - 1),
                               P |-> Int2Num(ps[i]),
                               count |-> cs[i]]] :
              ps \in [1..n -> RawPowers], cs \in [1..n -> ModeCounts] } :
            n \in 1..MaxRows, k0 \in RawFirstShells }

NotLoaded == [LoopInit EXCEPT !.status = "none"]

\* kmin and kmax of the theory model of the check (line 280).
CheckKmin(b) == Div(Div(TwoPi, b), Int2Num(5))
CheckKmax(b, np) == Mul(Div(Mul(Int2Num(np), TwoPi), b), Int2Num(10))

\* The CAMB tables of the check for a box b and a particle number np, with
\* rows at the wavenumbers ks: a total power of 10 and equal transfer
\* functions at every row.
CheckTheory(b, np, ks) ==
    [matter |-> [i \in 1..Len(ks) |-> <<Mul(ks[i], Scale(b)), Int2Num(10)>>],
     transfer |-> [i \in 1..Len(ks) |->
                     <<Mul(ks[i], Scale(b)), One, One, One, One, One, One, One>>],
     kmin |-> CheckKmin(b),
     kmax |-> CheckKmax(b, np)]

\* The runs check_ic_power_spectra is called in: every geometry, setting of
\* separate_gas and separate_nu and accuracy with CAMB tables that start below
\* the first shell, and a run with the defaults of __init__ and of the
\* accuracy argument whose CAMB tables start late.
Runs ==
    { [box |-> g[1], npart |-> g[2], nodes |-> WideNodes, separate_gas |-> sg,
       separate_nu |-> sn, accuracy |-> a] :
        g \in Geometries, sg \in BOOLEAN, sn \in BOOLEAN, a \in Accuracies }
    \cup
    { [box |-> Int2Num(2), npart |-> 32, nodes |-> LateNodes,
       separate_gas |-> TRUE, separate_nu |-> FALSE, accuracy |-> Num(1, 20, 0)] }

\* The theory model built from the tables f.
Built(f) == CAMBPowerSpectrum(f.matter, f.transfer, f.kmin, f.kmax)

NoTables == [matter |-> <<>>, transfer |-> <<>>, kmin |-> Zero, kmax |-> Zero]
NoModel == [dpk |-> interp1d(<<>>, <<>>), dtk |-> <<>>]
NoQuery == [kvals |-> <<>>, species |-> "none"]
NoPower == [status |-> "none", val |-> <<>>]

\* omega0: the default 0.288, and 1.
DefaultOmega0 == Num(288, 1000, 0)
Omegas == {DefaultOmega0, One}

\* Default N-GenIC parameter files (ngenic.param): 2LPT on or off, baryons
\* present or not, and one with another unit of length.
GenicDefaults ==
    {[NCDM |-> 0, NBaryon |-> 0, TWOLPT |-> 1, Omega |-> Num(3, 10, 0),
      OmegaLambda |-> Num(7, 10, 0),
      InputSpectrum_UnitLength_in_cm |-> "3.085678e24"],
     [NCDM |-> 0, NBaryon |-> 512, TWOLPT |-> 0, Omega |-> Num(3, 10, 0),
      OmegaLambda |-> Num(7, 10, 0),
      InputSpectrum_UnitLength_in_cm |-> "3.085678e24"],
     [NCDM |-> 0, NBaryon |-> 0, TWOLPT |-> 1, Omega |-> Num(3, 10, 0),
      OmegaLambda |-> Num(7, 10, 0),
      InputSpectrum_UnitLength_in_cm |-> "3.085678e21"]}

\* The Gen-PK tables a run of make_simulation can leave for a species: the
\* longest tables of CheckFiles with the same power in every shell, exact or
\* 30% off.
MakeFiles(b) ==
    { [i \in 1..MaxLen |-> [k |-> Int2Num(k0 + i - 1),
                            P |-> Div(p, Cube(b)),
                            count |-> 1]] :
        p \in {Int2Num(10), Int2Num(13)}, k0 \in FirstShells }

\* Tables given to CAMBPowerSpectrum alone: wavenumbers 1/2, 1, ..., 32.
TableK == <<Num(1, 2, 0), Int2Num(1), Int2Num(2), Int2Num(4), Int2Num(8),
            Int2Num(16), Int2Num(32)>>
MatterTables ==
    { [i \in 1..Len(TableK) |-> <<TableK[i], Int2Num(ps[i])>>] :
        ps \in {<<64, 32, 16, 8, 4, 2, 1>>, <<5, 7, 9, 11, 13, 15, 17>>} }
\* Rows <<k, CDM, baryon, photon, massless nu, massive nu, total, CDM+baryon>>;
\* the second table ends at k = 8.
TransferTables ==
    { [i \in 1..n |-> <<TableK[i], Int2Num(i + 2), Int2Num(i), One, One,
                        Int2Num(1), Int2Num(2 * i), Int2Num(i + 1)>>] :
        n \in {Len(TableK), Len(TableK) - 2} }
\* (kmin, kmax) the tables are cut to.
CutRanges == {<<Int2Num(1), Int2Num(32)>>, <<Num(1, 4, 0), Int2Num(64)>>}
\* The wavenumbers asked for, one or two in a call, and the species.
QueryPoints == {Num(1, 2, 0), Int2Num(1), Int2Num(4), Int2Num(16), Int2Num(32)}
Queries ==
    {<<k>> : k \in QueryPoints} \cup {<<k1, k2>> : k1, k2 \in QueryPoints}
TheoryLabels == {"tot", "DM", "by", "nu", "DMby"}

------------------------------------------------------------------------------
(* Spec: check_ic_power_spectra.                                            *)

Init ==
    /\ \E r \in Runs :
          /\ box = r.box /\ npart = r.npart
          /\ separate_gas = r.separate_gas /\ separate_nu = r.separate_nu
          /\ pkaccuracy = r.accuracy
          /\ camb_files = CheckTheory(r.box, r.npart, r.nodes)
    /\ accuracy = pkaccuracy
    /\ pc = "loop"
    /\ spi = 0
    /\ outcome = [sp \in {"DM", "by", "nu"} |-> "none"]
    /\ cur = NoIteration
    /\ infile = NoFile
    /\ minmode = 1
    /\ loaded = NotLoaded
    /\ camb = Built(camb_files)
    /\ query = NoQuery
    /\ power = NoPower
    /\ omega0 = DefaultOmega0
    /\ genicdefault = NoConfig
    /\ genicout = NoConfig
    /\ steps = <<>>

\* The body of "for sp in [...]" for the next species (lines 288-332).  The
\* measurement file of the species is read when its iteration runs; an
\* exception ends the call.
CheckSpecies ==
    /\ pc = "loop"
    /\ \E f \in {NoFile} \cup CheckFiles(box) :
         cur' = Iteration(SpeciesOrder[spi + 1], f # NoFile, f, box, npart,
                          separate_gas, separate_nu, accuracy, camb)
    /\ accuracy' = cur'.tol
    /\ outcome' = [outcome EXCEPT ![cur'.sp] = cur'.status]
    /\ pc' = IF cur'.status \in {"pass", "skipped"} THEN "next" ELSE "raised"
    /\ UNCHANGED <<box, npart, separate_gas, separate_nu, pkaccuracy, spi,
                   infile, minmode, loaded, camb_files, camb, query, power,
                   omega0, genicdefault, genicout, steps>>

\* The for statement (line 287) takes the next species, the locals of the
\* body being rebound, or ends the loop and with it the call.
NextSpecies ==
    /\ pc = "next"
    /\ spi' = spi + 1
    /\ pc' = IF spi + 1 < Len(SpeciesOrder) THEN "loop" ELSE "returned"
    /\ cur' = NoIteration
    /\ UNCHANGED <<box, npart, separate_gas, separate_nu, pkaccuracy, accuracy,
                   outcome, infile, minmode, loaded, camb_files, camb, query,
                   power,
                   omega0, genicdefault, genicout, steps>>

Next == CheckSpecies \/ NextSpecies

Spec == Init /\ [][Next]_vars

------------------------------------------------------------------------------
(* SpecGenpk: load_genpk on a raw table.                                    *)

InitGenpk ==
    /\ box \in BoxSizes
    /\ npart = 16
    /\ separate_gas = FALSE
    /\ separate_nu = FALSE
    /\ pkaccuracy = Zero
    /\ accuracy = Zero
    /\ pc = "genpk"
    /\ spi = 0
    /\ outcome = [sp \in {"DM", "by", "nu"} |-> "none"]
    /\ cur = NoIteration
    /\ infile \in RawTables
    /\ minmode \in 1..MaxMinMode
    /\ loaded = NotLoaded
    /\ camb_files = NoTables
    /\ camb = NoModel
    /\ query = NoQuery
    /\ power = NoPower
    /\ omega0 = DefaultOmega0
    /\ genicdefault = NoConfig
    /\ genicout = NoConfig
    /\ steps = <<>>

LoadGenpk ==
    /\ pc = "genpk"
    /\ loaded' = load_genpk(infile, box, minmode)
    /\ pc' = "genpk_done"
    /\ UNCHANGED <<box, npart, separate_gas, separate_nu, pkaccuracy, accuracy,
                   spi, outcome, cur, infile, minmode, camb_files, camb, query,
                   power,
                   omega0, genicdefault, genicout, steps>>

NextGenpk == LoadGenpk

SpecGenpk == InitGenpk /\ [][NextGenpk]_vars

------------------------------------------------------------------------------
(* SpecCamb: get_camb_power on a theory model built from CAMB tables.       *)

InitCamb ==
    /\ box = TwoPi
    /\ npart = 16
    /\ separate_gas = FALSE
    /\ separate_nu = FALSE
    /\ pkaccuracy = Zero
    /\ accuracy = Zero
    /\ pc = "camb"
    /\ spi = 0
    /\ outcome = [sp \in {"DM", "by", "nu"} |-> "none"]
    /\ cur = NoIteration
    /\ infile = NoFile
    /\ minmode = 1
    /\ loaded = NotLoaded
    /\ \E m \in MatterTables, t \in TransferTables, r \in CutRanges :
          camb_files = [matter |-> m, transfer |-> t, kmin |-> r[1], kmax |-> r[2]]
    /\ camb = Built(camb_files)
    /\ \E kv \in Queries, s \in TheoryLabels : query = [kvals |-> kv, species |-> s]
    /\ power = NoPower
    /\ omega0 = DefaultOmega0
    /\ genicdefault = NoConfig
    /\ genicout = NoConfig
    /\ steps = <<>>

GetCambPower ==
    /\ pc = "camb"
    /\ power' = get_camb_power(camb, query.kvals, query.species)
    /\ pc' = "camb_done"
    /\ UNCHANGED <<box, npart, separate_gas, separate_nu, pkaccuracy, accuracy,
                   spi, outcome, cur, infile, minmode, loaded, camb_files, camb,
                   query,
                   omega0, genicdefault, genicout, steps>>

NextCamb == GetCambPower

SpecCamb == InitCamb /\ [][NextCamb]_vars

------------------------------------------------------------------------------
(* SpecMake: make_simulation.  pc names the statement that runs next.       *)

InitMake ==
    /\ \E g \in Geometries : box = g[1] /\ npart = g[2]
    /\ separate_gas \in BOOLEAN
    /\ separate_nu \in BOOLEAN
    /\ pkaccuracy \in Accuracies
    /\ accuracy = pkaccuracy
    /\ pc = MakeSteps[1]
    /\ spi = 0
    /\ outcome = [sp \in {"DM", "by", "nu"} |-> "none"]
    /\ cur = NoIteration
    /\ infile = NoFile
    /\ minmode = 1
    /\ loaded = NotLoaded
    /\ camb_files = NoTables
    /\ camb = NoModel
    /\ query = NoQuery
    /\ power = NoPower
    /\ omega0 \in Omegas
    /\ genicdefault \in GenicDefaults
    /\ genicout = NoConfig
    /\ steps = <<>>

\* The step name ended with result.
StepEnds(name, result) ==
    /\ steps' = Append(steps, [name |-> name, result |-> result])
    /\ pc' = AfterStep(name, result)

\* self.cambfile() (line 337); the assert of line 122 can fail.
CambFile ==
    /\ pc = "cambfile"
    /\ \E result \in {"ok", "AssertionError"} : StepEnds("cambfile", result)
    /\ UNCHANGED <<box, npart, separate_gas, separate_nu, pkaccuracy, accuracy,
                   spi, outcome, cur, infile, minmode, loaded, camb_files, camb,
                   query, power, omega0, genicdefault, genicout>>

\* subprocess.check_call([camb, camb_param]) (lines 339-343): CAMB writes its
\* tables, or fails.
RunCamb ==
    /\ pc = "run_camb"
    /\ \/ /\ \E ks \in {WideNodes, LateNodes} :
               camb_files' = CheckTheory(box, npart, ks)
          /\ StepEnds("run_camb", "ok")
       \/ /\ camb_files' = camb_files
          /\ StepEnds("run_camb", "CalledProcessError")
    /\ UNCHANGED <<box, npart, separate_gas, separate_nu, pkaccuracy, accuracy,
                   spi, outcome, cur, infile, minmode, loaded, camb,
                   query, power, omega0, genicdefault, genicout>>

\* self._alter_power(...) (line 345): os.stat of the matter power table.
AlterPower ==
    /\ pc = "_alter_power"
    /\ StepEnds("_alter_power",
                IF camb_files = NoTables THEN "FileNotFoundError" ELSE "ok")
    /\ UNCHANGED <<box, npart, separate_gas, separate_nu, pkaccuracy, accuracy,
                   spi, outcome, cur, infile, minmode, loaded, camb_files, camb,
                   query, power, omega0, genicdefault, genicout>>

\* self.genicfile(camb_output) (line 347)
GenicFile ==
    /\ pc = "genicfile"
    /\ LET g == genicfile(genicdefault, npart, separate_gas, omega0)
       IN  /\ genicout' = g.written
           /\ StepEnds("genicfile", g.status)
    /\ UNCHANGED <<box, npart, separate_gas, separate_nu, pkaccuracy, accuracy,
                   spi, outcome, cur, infile, minmode, loaded, camb_files, camb,
                   query, power, omega0, genicdefault>>

\* subprocess.check_call([genic, genic_param]) (lines 349-351)
RunGenic ==
    /\ pc = "run_genic"
    /\ \E result \in {"ok", "CalledProcessError"} : StepEnds("run_genic", result)
    /\ UNCHANGED <<box, npart, separate_gas, separate_nu, pkaccuracy, accuracy,
                   spi, outcome, cur, infile, minmode, loaded, camb_files, camb,
                   query, power, omega0, genicdefault, genicout>>

\* self.txt_description() (line 353): SimulationICs.json is written.
TxtDescription ==
    /\ pc = "txt_description"
    /\ StepEnds("txt_description", "ok")
    /\ UNCHANGED <<box, npart, separate_gas, separate_nu, pkaccuracy, accuracy,
                   spi, outcome, cur, infile, minmode, loaded, camb_files, camb,
                   query, power, omega0, genicdefault, genicout>>

\* self.check_ic_power_spectra(..., accuracy=pkaccuracy) (line 355), on the
\* Gen-PK tables of the three species that gen-pk left.
CheckIcPowerSpectra ==
    /\ pc = "check_ic_power_spectra"
    /\ \E fDM, fby, fnu \in {NoFile} \cup MakeFiles(box) :
          StepEnds("check_ic_power_spectra",
                   check_ic_power_spectra(camb_files, <<fDM, fby, fnu>>,
                                          pkaccuracy, box, npart,
                                          separate_gas, separate_nu))
    /\ UNCHANGED <<box, npart, separate_gas, separate_nu, pkaccuracy, accuracy,
                   spi, outcome, cur, infile, minmode, loaded, camb_files, camb,
                   query, power, omega0, genicdefault, genicout>>

\* ics = self.code_class_name(...); ics.make_simulation(...) (lines 357-358)
CodeMakeSimulation ==
    /\ pc = "code_make_simulation"
    /\ \E result \in {"ok", "CalledProcessError"} :
          StepEnds("code_make_simulation", result)
    /\ UNCHANGED <<box, npart, separate_gas, separate_nu, pkaccuracy, accuracy,
                   spi, outcome, cur, infile, minmode, loaded, camb_files, camb,
                   query, power, omega0, genicdefault, genicout>>

NextMake ==
    \/ CambFile \/ RunCamb \/ AlterPower \/ GenicFile \/ RunGenic
    \/ TxtDescription \/ CheckIcPowerSpectra \/ CodeMakeSimulation

SpecMake == InitMake /\ [][NextMake]_vars

------------------------------------------------------------------------------
(* Properties of check_ic_power_spectra, checked under Spec.  They speak of *)
(* cur, the locals of the iteration that ran last.                          *)

\* The measurement file of the species of cur was loaded: its iteration got
\* past load_genpk.
Loaded == cur.sp # "none" /\ Len(cur.kk_ic) > 0

\* The iteration of cur reached the search of the comparison window (line
\* 305): its measurement was loaded and the theory model gave its curve.
Windowed == Loaded /\ cur.status # "ValueError"

\* The tolerance the species is to be judged with.
SpeciesTolerance(sp) ==
    IF sp = "nu" THEN Mul(Int2Num(4), pkaccuracy) ELSE pkaccuracy

\* Fractional deviation |P_measured/P_theory - 1| of sample i of cur.
Deviation(i) == AbsNum(Sub(Div(cur.Pk_ic[i + 1], cur.Pk_camb[i + 1]), One))

\* The samples of cur with index in [lo, hi) deviating by more than tol.
Exceeding(lo, hi, tol) ==
    {i \in 0..(Len(cur.Pk_ic) - 1) : lo <= i /\ i < hi /\ Less(tol, Deviation(i))}

\* C1: for every species whose measurement was loaded, the iteration raises
\* the accuracy error if and only if more than 3 samples with index in
\* [index_min, index_max) deviate by strictly more than the species'
\* tolerance, and the error names the species and the maximum deviation over
\* the window.
C1_AccuracyErrorIffMoreThanThree ==
    Loaded =>
        LET bad == Exceeding(cur.imin, cur.imax, SpeciesTolerance(cur.sp))
            W == Exceeding(cur.imin, cur.imax, Num(-1, 1, 0))
        IN  /\ (cur.status = "RuntimeError") <=> (Cardinality(bad) > 3)
            /\ cur.status = "RuntimeError" =>
                  /\ cur.message.species = cur.sp
                  /\ \E i \in W : cur.message.max_error = Deviation(i)
                  /\ \A i \in W : Leq(Deviation(i), cur.message.max_error)

\* C1, where the iteration reached the comparison of line 329: there the
\* accuracy error is raised exactly when more than 3 window samples deviate by
\* more than the tolerance.
C1_ThresholdWhereCompared ==
    (Loaded /\ cur.status \in {"pass", "RuntimeError"}) =>
        ((cur.status = "RuntimeError") <=>
         (Cardinality(Exceeding(cur.imin, cur.imax, SpeciesTolerance(cur.sp))) > 3))

\* The first index whose measured power is below 1e-5 times the first
\* measured power is i.
FirstCollapsedAt(i) ==
    /\ i \in 0..(Len(cur.Pk_ic) - 1)
    /\ Less(cur.Pk_ic[i + 1], Mul(Num(1, 100000, 0), cur.Pk_ic[1]))
    /\ \A j \in 0..(i - 1) :
          ~Less(cur.Pk_ic[j + 1], Mul(Num(1, 100000, 0), cur.Pk_ic[1]))

\* C2: for species nu, if i is the first index whose measured power is below
\* 1e-5 times the first measured power, the upper bound of the window is i,
\* and the accuracy error is raised only if more than 3 samples of index
\* below i deviate: samples of index >= i never make the check fail.
C2_NeutrinoCutoffTruncates ==
    \A i \in 0..(Len(cur.Pk_ic) - 1) :
        (cur.sp = "nu" /\ Windowed /\ FirstCollapsedAt(i)) =>
            /\ cur.imax = i
            /\ cur.status = "RuntimeError" =>
                  Cardinality(Exceeding(cur.imin, i, cur.tol)) > 3

\* Witness of C2: a nu iteration passes with the window cut at i although more
\* than 3 samples deviate when those of index >= i are counted too.
C2_Witness ==
    \E i \in 0..(Len(cur.Pk_ic) - 1) :
        /\ cur.sp = "nu" /\ Loaded /\ FirstCollapsedAt(i)
        /\ cur.status = "pass"
        /\ Cardinality(Exceeding(cur.imin, Len(cur.Pk_ic), cur.tol)) > 3

\* C3: DM and by are judged with exactly the caller's tolerance and nu with 4
\* times it, and whether the iteration of a species raises the accuracy error
\* is decided by its own samples and that tolerance alone, whatever species
\* ran before it and however they ended.
C3_SpeciesIndependent ==
    Windowed =>
        /\ cur.tol = SpeciesTolerance(cur.sp)
        /\ (cur.status = "RuntimeError") <=>
              /\ cur.imin < Len(cur.kk_ic) /\ cur.imax < Len(cur.kk_ic)
              /\ Cardinality(Exceeding(cur.imin, cur.imax,
                                       SpeciesTolerance(cur.sp))) > 3
        /\ cur.status \in {"pass", "RuntimeError", "IndexError"}

\* Witness of C3: nu passes after DM and by passed, with more than 3 samples
\* that deviate by more than the caller's tolerance but not by 4 times it.
C3_Witness ==
    /\ cur.sp = "nu" /\ Loaded /\ cur.status = "pass"
    /\ outcome["DM"] = "pass" /\ outcome["by"] = "pass"
    /\ Cardinality(Exceeding(cur.imin, cur.imax, pkaccuracy)) > 3

\* C9: when separate_gas is false no comparison is made for species by and no
\* by accuracy error is raised, whether or not its measurement file exists.
C9_NoBaryonCheckWithoutGas ==
    (cur.sp = "by" /\ ~separate_gas) => cur.status = "skipped"

\* C10: a missing measurement file of DM, or of by when separate_gas is true,
\* is a fatal error raised before anything of the species is loaded or
\* compared; a missing nu file is no error: nu is skipped; and the call
\* returns only after DM (and by, when separate_gas is true) was checked.
C10_MandatoryFiles ==
    /\ (cur.sp # "none" /\ ~cur.exists) =>
          /\ cur.kk_ic = <<>> /\ cur.theory = "none"
          /\ (cur.sp = "DM" \/ (cur.sp = "by" /\ separate_gas)) =>
                cur.status = "AssertionError"
          /\ cur.sp = "nu" => cur.status = "skipped"
    /\ (cur.sp \in {"DM", "by", "nu"} /\ cur.exists) => cur.status # "skipped"
    /\ outcome["DM"] # "skipped"
    /\ separate_gas => outcome["by"] # "skipped"
    /\ pc = "returned" =>
          /\ outcome["DM"] = "pass"
          /\ separate_gas => outcome["by"] = "pass"

\* Witness of C10: the call returns with the nu species skipped.
C10_Witness ==
    pc = "returned" /\ outcome["nu"] = "skipped" /\ outcome["DM"] = "pass"

\* The theory curve a label is to be compared against.
ExpectedTheory(sp) ==
    CASE sp = "DM" /\ ~separate_gas /\ ~separate_nu -> "tot"
      [] sp = "DM" /\ ~separate_gas /\ separate_nu -> "DMby"
      [] sp = "DM" /\ separate_gas -> "DM"
      [] sp = "by" -> "by"
      [] sp = "nu" -> "nu"

\* C11: the theory curve a loaded label is compared against depends on the
\* label, separate_gas and separate_nu only: DM against tot when both flags
\* are false, against DMby when only separate_nu is true, against DM when
\* separate_gas is true; by against by and nu against nu.
C11_TheoryCurveOfLabel ==
    Loaded => cur.theory = ExpectedTheory(cur.sp)

\* Witness of C11: DM is compared against DMby, gas being combined into DM
\* and neutrinos not.
C11_Witness ==
    /\ Loaded /\ cur.sp = "DM" /\ ~separate_gas /\ separate_nu
    /\ cur.theory = "DMby" /\ cur.status \in {"pass", "RuntimeError"}

\* C12: a failure while the diagnostic plots of a species are produced, such
\* as the index error of kk_ic[index_min] or kk_ic[index_max], never aborts
\* the call: no iteration that loaded its measurement ends with that error.
C12_PlotFailureNeverAborts ==
    Loaded => cur.status # "IndexError"

\* The species whose iteration ran.
Evaluated == {sp \in {"DM", "by", "nu"} : outcome[sp] # "none"}

\* C13: the species are evaluated in the order DM, by, nu and nothing is
\* evaluated after the first species that failed; the call returns normally
\* if and only if every species that was checked passed its accuracy
\* comparison and every mandatory measurement file existed, so a call that
\* does not return has a species that failed its comparison or lacked its
\* mandatory file.
C13_ReturnsIffAllPassed ==
    /\ "by" \in Evaluated => outcome["DM"] \in {"pass", "skipped"}
    /\ "nu" \in Evaluated => outcome["by"] \in {"pass", "skipped"}
    /\ pc = "returned" =>
          /\ Evaluated = {"DM", "by", "nu"}
          /\ \A sp \in Evaluated : outcome[sp] \in {"pass", "skipped"}
    /\ pc = "raised" =>
          \E sp \in Evaluated : outcome[sp] \in {"RuntimeError", "AssertionError"}

\* C13, the part that holds: the order of evaluation, the stop at the first
\* exception of any kind, and the normal return after three iterations that
\* each passed or were skipped.
C13_OrderAndStop ==
    /\ "by" \in Evaluated => outcome["DM"] \in {"pass", "skipped"}
    /\ "nu" \in Evaluated => outcome["by"] \in {"pass", "skipped"}
    /\ (pc = "returned") <=>
          /\ Evaluated = {"DM", "by", "nu"}
          /\ \A sp \in Evaluated : outcome[sp] \in {"pass", "skipped"}
          /\ cur = NoIteration

------------------------------------------------------------------------------
(* Properties of load_genpk, checked under SpecGenpk.  They speak of        *)
(* loaded, what the call on infile, box and minmode ended with.             *)

\* The call returned (it raised nothing).
Returned == loaded.status = "ok"

\* Sum of the mode counts of the raw rows of index in [lo, hi).
RECURSIVE ModeCount(_, _)
ModeCount(lo, hi) ==
    IF lo >= hi THEN 0 ELSE infile[hi].count + ModeCount(lo, hi - 1)

\* Sum of count * x over the raw rows of index in [lo, hi), x the physical
\* wavenumber ("k") or the physical power ("P") of the row.
RECURSIVE Weighted(_, _, _)
Weighted(x, lo, hi) ==
    IF lo >= hi THEN Zero
    ELSE LET row == infile[hi]
             v == IF x = "k" THEN PhysK(row.k, Scale(box))
                  ELSE PhysPk(row.P, Scale(box))
         IN  Add(Weighted(x, lo, hi - 1), Mul(Int2Num(row.count), v))

BinIndices == 1..Len(loaded.bins)

\* C4: every bin aggregates raw rows whose mode counts sum to at least
\* minmode, and there are at most as many bins as raw rows.
C4_BinsReachMinmode ==
    loaded.status # "none" =>
        /\ Len(loaded.kk_rebin) = Len(loaded.bins)
        /\ Len(loaded.Pk_rebin) = Len(loaded.bins)
        /\ Len(loaded.bins) <= Len(infile)
        /\ \A j \in BinIndices :
              ModeCount(loaded.bins[j][1], loaded.bins[j][2]) >= minmode

\* Witness of C4: a returned bin that aggregates several rows, none of which
\* reaches minmode alone.
C4_Witness ==
    /\ Returned
    /\ \E j \in BinIndices :
          /\ loaded.bins[j][2] - loaded.bins[j][1] >= 2
          /\ \A r \in (loaded.bins[j][1] + 1)..loaded.bins[j][2] :
                infile[r].count < minmode

\* C5: the bins are disjoint runs of consecutive raw rows, in raw order,
\* together covering a prefix of the rows; each closes at the first row where
\* its running mode count reaches minmode; the rows after the last bin never
\* reach minmode together and are in no bin.
C5_BinsAreConsecutiveRuns ==
    Returned =>
        LET nb == Len(loaded.bins)
            last == IF nb = 0 THEN 0 ELSE loaded.bins[nb][2]
        IN  /\ nb > 0 => loaded.bins[1][1] = 0
            /\ \A j \in BinIndices :
                  /\ loaded.bins[j][1] < loaded.bins[j][2]
                  /\ loaded.bins[j][2] <= Len(infile)
                  /\ j < nb => loaded.bins[j + 1][1] = loaded.bins[j][2]
                  /\ ModeCount(loaded.bins[j][1], loaded.bins[j][2] - 1) < minmode
                  /\ ModeCount(loaded.bins[j][1], loaded.bins[j][2]) >= minmode
            /\ ModeCount(last, Len(infile)) < minmode

\* Witness of C5: the call returns bins and drops trailing rows that hold
\* modes.
C5_Witness ==
    /\ Returned
    /\ Len(loaded.bins) > 0
    /\ loaded.bins[Len(loaded.bins)][2] < Len(infile)
    /\ ModeCount(loaded.bins[Len(loaded.bins)][2], Len(infile)) > 0

\* C6: the wavenumber of each bin is sum(count*k)/sum(count) and its power
\* sum(count*P)/sum(count), over exactly the raw rows of the bin, k and P in
\* physical units.
C6_BinsAreWeightedMeans ==
    loaded.status # "none" =>
        \A j \in BinIndices :
            LET lo == loaded.bins[j][1]
                hi == loaded.bins[j][2]
            IN  /\ loaded.kk_rebin[j] =
                      Div(Weighted("k", lo, hi), Int2Num(ModeCount(lo, hi)))
                /\ loaded.Pk_rebin[j] =
                      Div(Weighted("P", lo, hi), Int2Num(ModeCount(lo, hi)))

\* Witness of C6: a returned bin of rows with different mode counts and
\* different powers.
C6_Witness ==
    /\ Returned
    /\ \E j \in BinIndices :
          \E r1, r2 \in (loaded.bins[j][1] + 1)..loaded.bins[j][2] :
              /\ infile[r1].count # infile[r2].count
              /\ infile[r1].count > 0 /\ infile[r2].count > 0
              /\ infile[r1].P # infile[r2].P

UnitBox ==
    /\ box = TwoPi
    /\ minmode = 1
    /\ \A r \in 1..Len(infile) : infile[r].count >= 1

\* C8: for box = 2 pi, minmode = 1 and all mode counts >= 1, the returned
\* wavenumbers and powers equal the raw wavenumbers and powers row for row.
C8_UnitBoxReturnsRaw ==
    (Returned /\ UnitBox) =>
        /\ Len(loaded.kk_rebin) = Len(infile)
        /\ \A r \in 1..Len(infile) :
              /\ loaded.kk_rebin[r] = infile[r].k
              /\ loaded.Pk_rebin[r] = infile[r].P

\* C8 as amended: for box = 2 pi the scale is 1, and with minmode = 1 and all
\* mode counts >= 1 the returned wavenumbers equal the raw wavenumbers row
\* for row, and the returned powers are the raw powers times (2 pi)^3.
C8_UnitBoxScalesPower ==
    (Returned /\ UnitBox) =>
        /\ Scale(box) = One
        /\ Len(loaded.kk_rebin) = Len(infile)
        /\ Len(loaded.Pk_rebin) = Len(infile)
        /\ \A r \in 1..Len(infile) :
              /\ loaded.kk_rebin[r] = infile[r].k
              /\ loaded.Pk_rebin[r] = Mul(infile[r].P, Num(1, 1, 3))

\* Witness of C8 as amended: such a call returns rows of non-zero power.
C8_Witness ==
    /\ Returned /\ UnitBox
    /\ \E r \in 1..Len(infile) : infile[r].P # Zero

------------------------------------------------------------------------------
(* Properties of get_camb_power, checked under SpecCamb.  They speak of     *)
(* power, what the call with the arguments of query on camb ended with, and *)
(* of the tables of camb_files that camb was built from.                    *)

\* The rows of a table the interpolants are built on: those whose wavenumber
\* lies in [kmin, kmax).
BuiltRows(table) ==
    {i \in 1..Len(table) : /\ Leq(camb_files.kmin, table[i][1])
                          /\ Less(table[i][1], camb_files.kmax)}

\* k lies between the first and the last wavenumber an interpolant on the
\* table is built on.
InBuiltRange(table, k) ==
    \E i, j \in BuiltRows(table) : Leq(table[i][1], k) /\ Leq(k, table[j][1])

\* The row of a table whose wavenumber is k.
RowOf(table, k) == table[CHOOSE i \in 1..Len(table) : table[i][1] = k]

\* The total matter power the matter table gives at k.
TotalPower(k) == RowOf(camb_files.matter, k)[2]

\* The square of the species' transfer function over the total transfer
\* function (the 7th entry of a row) that the transfer table gives at k.
SquaredRatio(species, k) ==
    LET row == RowOf(camb_files.transfer, k)
        t == CASE species = "DM" -> row[2]
               [] species = "by" -> row[3]
               [] species = "nu" -> row[6]
               [] species = "DMby" -> row[8]
        r == Div(t, row[7])
    IN  Mul(r, r)

\* C14: for species tot the call returns the total-matter power at each
\* wavenumber, whatever the transfer table is (it succeeds even where the
\* transfer interpolants are not defined); for every other species it
\* returns the total-matter power times the squared ratio of the species'
\* transfer function to the total one, the ratio entering once.
C14_SpeciesPowerFromTables ==
    power.status # "none" =>
        LET ks == query.kvals
            idx == 1..Len(ks)
            inMatter == \A i \in idx : InBuiltRange(camb_files.matter, ks[i])
            inTransfer == \A i \in idx : InBuiltRange(camb_files.transfer, ks[i])
        IN  IF query.species = "tot"
            THEN /\ (power.status = "ok") <=> inMatter
                 /\ power.status = "ok" =>
                       \A i \in idx : power.val[i] = TotalPower(ks[i])
            ELSE /\ (power.status = "ok") <=> (inMatter /\ inTransfer)
                 /\ power.status = "ok" =>
                       \A i \in idx :
                           power.val[i] = Mul(TotalPower(ks[i]),
                                              SquaredRatio(query.species, ks[i]))

\* Witness of C14: a call for two different wavenumbers and a species whose
\* squared ratio is not 1 returns.
C14_Witness ==
    /\ power.status = "ok" /\ query.species = "by"
    /\ Len(query.kvals) = 2 /\ query.kvals[1] # query.kvals[2]
    /\ \A i \in 1..2 : SquaredRatio("by", query.kvals[i]) # One

------------------------------------------------------------------------------
(* Properties of genicfile and make_simulation, checked under SpecMake.     *)
(* They speak of steps, the statements of make_simulation that ran with     *)
(* their results, and of genicout, the parameter file genicfile wrote.      *)

\* genicfile wrote its parameter file.
GenicWritten == genicout # NoConfig

\* C15: the N-GenIC parameter file written has Omega = omega0 and
\* OmegaLambda = 1 - omega0, so that the two sum to 1; NBaryon = npart and
\* TWOLPT = 0 when separate_gas is true, and NBaryon = 0 when it is false.
C15_GenicParameters ==
    GenicWritten =>
        /\ genicout.Omega = omega0
        /\ genicout.OmegaLambda = Sub(One, omega0)
        /\ Add(genicout.Omega, genicout.OmegaLambda) = One
        /\ separate_gas => (genicout.NBaryon = npart /\ genicout.TWOLPT = 0)
        /\ ~separate_gas => genicout.NBaryon = 0

\* Witness of C15: files are written with separate_gas true, where the
\* default file had 2LPT on, and with separate_gas false, where the default
\* file had baryons; this state is one of the two.
C15_Witness ==
    /\ GenicWritten
    /\ \/ separate_gas /\ genicdefault.TWOLPT = 1
       \/ ~separate_gas /\ genicdefault.NBaryon # 0

\* The order the steps are to run in.
ExpectedOrder ==
    <<"cambfile", "run_camb", "_alter_power", "genicfile", "run_genic",
      "txt_description", "check_ic_power_spectra", "code_make_simulation">>

\* The step name ran (it was invoked, whatever it ended with).
Ran(name) == \E i \in 1..Len(steps) : steps[i].name = name

\* The step name raised.
Raised(name) ==
    \E i \in 1..Len(steps) : steps[i].name = name /\ steps[i].result # "ok"

------------------------------------------------------------------------------
(* Properties of the comparison window of check_ic_power_spectra, checked   *)
(* under Spec.                                                              *)

\* The wavenumbers the comparison is to be made between: 4 times the
\* fundamental mode of the box, and a quarter of npart times it.
LowerBound == Mul(Int2Num(4), Div(TwoPi, box))
UpperBound(np) == Div(Mul(Int2Num(np), Div(TwoPi, box)), Int2Num(4))

\* The first index of the rebinned spectrum of cur whose wavenumber is at
\* least bound (the length of the spectrum if there is none).
FirstIndexAtLeast(bound) ==
    Cardinality({i \in 1..Len(cur.kk_ic) : Less(cur.kk_ic[i], bound)})

\* The rebinned spectrum of cur is sorted by increasing wavenumber.
SortedSpectrum ==
    \A i \in 1..(Len(cur.kk_ic) - 1) : Less(cur.kk_ic[i], cur.kk_ic[i + 1])

\* C16: for species nu the final index_max is never greater than the
\* index_max found by binary search for k >= npart*2*pi/box/4.
C16_CutoffOnlyShrinks ==
    (cur.sp = "nu" /\ Windowed) =>
        cur.imax <= FirstIndexAtLeast(UpperBound(npart))

\* The upper end of the window the species of cur is to be compared on: the
\* searched index, or for nu the first collapsed index when there is one.
WindowEnd ==
    IF cur.sp = "nu" /\ \E i \in 0..(Len(cur.Pk_ic) - 1) : FirstCollapsedAt(i)
    THEN CHOOSE i \in 0..(Len(cur.Pk_ic) - 1) : FirstCollapsedAt(i)
    ELSE FirstIndexAtLeast(UpperBound(npart))

\* The wavenumber k lies in the range the theory model is built on.
InTheoryRange(k) == InBuiltRange(camb_files.matter, k)

\* C17: the theory model is asked only for the rebinned wavenumbers of index
\* in [index_min, index_max), so a wavenumber outside the window cannot make
\* the check fail: an iteration ends with the ValueError of the interpolant
\* only if a wavenumber of the window lies outside the range of the theory.
C17_TheoryQueriedInWindowOnly ==
    (Loaded /\ cur.status = "ValueError") =>
        \E i \in 0..(Len(cur.kk_ic) - 1) :
            /\ FirstIndexAtLeast(LowerBound) <= i /\ i < WindowEnd
            /\ ~InTheoryRange(cur.kk_ic[i + 1])

\* C18 as stated: for a sorted rebinned spectrum index_min < index_max
\* whenever 4*2*pi/box < npart*2*pi/box/4, that is whenever npart > 16, and
\* index_max does not decrease as npart increases.
C18_WindowNeverEmpty ==
    (Windowed /\ SortedSpectrum /\ npart > 16) =>
        cur.imin < cur.imax_searched

\* Particle numbers the search for index_max is compared over.
ParticleNumbers == {8, 16, 32, 64}

\* C18 as amended: for a sorted rebinned spectrum the searched indices are
\* the first indices at or above the two bounds; index_min <= index_max
\* whenever npart >= 16, with index_min < index_max exactly when a rebinned
\* wavenumber k has 4*2*pi/box <= k < npart*2*pi/box/4; and index_max does
\* not decrease as npart increases.
C18_WindowOrdered ==
    (Windowed /\ SortedSpectrum) =>
        /\ cur.imin = FirstIndexAtLeast(LowerBound)
        /\ cur.imax_searched = FirstIndexAtLeast(UpperBound(npart))
        /\ npart >= 16 => cur.imin <= cur.imax_searched
        /\ (cur.imin < cur.imax_searched) <=>
              \E i \in 1..Len(cur.kk_ic) :
                  /\ Leq(LowerBound, cur.kk_ic[i])
                  /\ Less(cur.kk_ic[i], UpperBound(npart))
        /\ \A np \in ParticleNumbers :
              /\ np >= npart => SearchMax(cur.kk_ic, np, box) >= cur.imax_searched
              /\ np <= npart => SearchMax(cur.kk_ic, np, box) <= cur.imax_searched

\* Witness of C18 as amended: npart > 16 and the searched window is empty,
\* no rebinned wavenumber lying between the bounds.
C18_Witness ==
    /\ Windowed /\ SortedSpectrum /\ npart > 16
    /\ cur.imin = cur.imax_searched

\* C20: a species whose comparison window is empty (index_min >= index_max)
\* passes, whatever its measured powers are.
C20_EmptyWindowPasses ==
    (Windowed /\ cur.imin >= cur.imax) => cur.status = "pass"

\* C20, the part that holds: on an empty window no sample is compared and the
\* accuracy error is never raised; the iteration passes unless the plotting
\* code raised its index error.
C20_EmptyWindowNeverInaccurate ==
    (Windowed /\ cur.imin >= cur.imax) =>
        /\ cur.nbad = 0
        /\ cur.status \in {"pass", "IndexError"}
        /\ cur.status = "pass" <=>
              (cur.imin < Len(cur.kk_ic) /\ cur.imax < Len(cur.kk_ic))

====
